---------------------------- MODULE Spec2Model ----------------------------
(***************************************************************************)
(* LMArena Bridge, unified entry point (src/main.py).                      *)
(*                                                                         *)
(* Four state machines over disjoint variables:                            *)
(*   Spec     one inbound request handled by proxy_request: the routing    *)
(*            prologue, the WebSocket bridge branch and the HTTP forward   *)
(*            branch, together with the client and the upstream peers;     *)
(*   SupSpec  the gateway life cycle: lifespan start-up, serving, the      *)
(*            shutdown performed by stop_backend_servers, and the two      *)
(*            backend child processes;                                     *)
(*   LogSpec  start-up, the children's output pipes and the log tasks;     *)
(*   HealthSpec  one call of health_check.                                 *)
(* Every await of the source is a separate step; what the peers and the    *)
(* operating system do between two steps is a nondeterministic action.     *)
(***************************************************************************)
EXTENDS Naturals, Sequences, FiniteSets

(***************************************************************************)
(* Bounds of the model.                                                    *)
(***************************************************************************)
\* messages each peer of a bridge session sends at most
MaxMsgs == 2
\* body chunks an upstream sends at most in one HTTP response
MaxChunks == 2
\* lines a child writes to one of its output streams
MaxLines == 2

VARIABLES
    \* ---- proxy_request
    pc,             \* position of the handler
    req,            \* the inbound request and the endpoint it was routed to
    backend_name,   \* backend selected by the routing rules
    ws,             \* the bridge session and its two peers (see WsInit)
    http,           \* the HTTP forward and the upstream's response (see HttpInit)
    \* ---- supervisor
    gw,             \* gateway phase
    sigterm,        \* the server has received a termination signal
    osState,        \* child process as the operating system has it
    returncode,     \* child exit as the event loop has observed it
    stopPc,         \* position inside stop_backend_servers
    stopIdx,        \* child being stopped (1 = API, 2 = dashboard)
    elapsed,        \* seconds waited in the current wait_for
    hist,           \* per child: what stop_backend_servers did to it (see HistInit)
    io,             \* the children's output pipes and the log tasks (see IoInit)
    \* ---- health_check
    health          \* one call of health_check and the upstreams it probes
                    \* (see HealthInit)

reqVars == <<pc, req, backend_name, ws, http>>
supVars == <<gw, sigterm, osState, returncode, stopPc, stopIdx, elapsed, hist,
             io, health>>
vars    == <<reqVars, supVars>>

(***************************************************************************)
(* Strings the code inspects are sequences of characters, so that          *)
(* str.startswith and str.lower are computed, not assumed.                 *)
(***************************************************************************)
StartsWith(s, p) == Len(s) >= Len(p) /\ SubSeq(s, 1, Len(p)) = p

LowerChar(c) ==
    CASE c = "W" -> "w"
      [] c = "S" -> "s"
      [] OTHER   -> c

Lower(s) == [i \in 1..Len(s) |-> LowerChar(s[i])]

\* request paths (the {path:path} parameter has no leading slash)
Paths ==
    { <<>>,
      <<"w","s">>,
      <<"w","s","x">>,
      <<"v","1">>,
      <<"v","1","/","m">>,
      <<"i","n","t","e","r","n","a","l","/","r">>,
      <<"a","p","i","/","s">>,
      <<"h","e","a","l","t","h">> }

\* values of the upgrade header; <<>> is the absent header's default ""
Upgrades ==
    { <<>>,
      <<"w","e","b","s","o","c","k","e","t">>,
      <<"W","e","b","S","o","c","k","e","t">>,
      <<"h","2","c">> }

WEBSOCKET == <<"w","e","b","s","o","c","k","e","t">>

API_SERVER_URL == "http://127.0.0.1:5102"
DASHBOARD_SERVER_URL == "http://127.0.0.1:5105"
ws_url == "ws://127.0.0.1:5102/ws"

\* variant of IsApiPath: the second rule lacks the slash
IsApiPath_NoSlash(p) ==
    \/ StartsWith(p, <<"w","s">>)
    \/ StartsWith(p, <<"v","1">>)
    \/ StartsWith(p, <<"i","n","t","e","r","n","a","l","/">>)

\* the routing rule of proxy_request
IsApiPath(p) ==
    \/ StartsWith(p, <<"w","s">>)
    \/ StartsWith(p, <<"v","1","/">>)
    \/ StartsWith(p, <<"i","n","t","e","r","n","a","l","/">>)

TargetUrl(p) == IF IsApiPath(p) THEN API_SERVER_URL ELSE DASHBOARD_SERVER_URL

BackendName(p) == IF IsApiPath(p) THEN "API" ELSE "DASHBOARD"

IsUpgrade(u) == Lower(u) = WEBSOCKET

(***************************************************************************)
(* The bridge session.                                                     *)
(***************************************************************************)
\* frames a client sends: two text messages and one binary frame, on which
\* receive_text fails
ClientFrames == {"a", "b", "BIN"}
\* messages the upstream sends
UpstreamMsgs == {"x", "y"}

WsInit ==
    [ accepted      |-> FALSE,       \* websocket.accept() succeeded
      cli           |-> "connected", \* client end: "connected", "disconnected"
                                     \* (the client went away), "closed" (closed
                                     \* by the gateway)
      cliInbox      |-> <<>>,        \* client frames not yet received
      cliSent       |-> <<>>,        \* every frame the client sent
      up            |-> "none",      \* backend_ws: "none", "open",
                                     \* "peer_closed", "closed"
      upOutbox      |-> <<>>,        \* upstream messages not yet received
      upSent        |-> <<>>,        \* every message the upstream sent
      url           |-> "",          \* URL backend_ws was opened on
      f2b           |-> "off",       \* forward_to_backend: off, recv, send, done
      f2c           |-> "off",       \* forward_to_client:  off, recv, send, done
      f2bData       |-> "",          \* the message forward_to_backend holds
      f2cData       |-> "",          \* the message forward_to_client holds
      f2bRead       |-> <<>>,        \* what websocket.receive delivered, in order
      f2cRead       |-> <<>>,        \* what backend_ws.recv delivered, in order
      toUp          |-> <<>>,        \* what backend_ws.send wrote, in order
      toCli         |-> <<>>,        \* what websocket.send_text wrote, in order
      f2bEnd        |-> "",          \* "disconnect" or "error"
      f2cEnd        |-> "",          \* "closed" or "error"
      cliCloseCalls |-> 0,           \* calls of websocket.close()
      upCloseCalls  |-> 0 ]          \* closes of backend_ws

\* await websocket.accept(): outside the try statement, so a failure leaves
\* the handler as an exception
WsAccept ==
    /\ pc = "accept"
    /\ \E ok \in BOOLEAN :
         /\ pc' = IF ok THEN "connect" ELSE "raised"
         /\ ws' = [ws EXCEPT !.accepted = ok]
    /\ UNCHANGED <<req, backend_name, http, supVars>>

\* variant of WsConnect: the upstream endpoint follows the routed target
WsConnect_PathRouted ==
    /\ pc = "connect"
    /\ \E ok \in BOOLEAN :
         IF ok
         THEN /\ ws' = [ws EXCEPT !.up = "open", !.url = http.target_url,
                                  !.f2b = "recv", !.f2c = "recv"]
              /\ pc' = "bridging"
         ELSE /\ ws' = ws
              /\ pc' = "finally"
    /\ UNCHANGED <<req, backend_name, http, supVars>>

\* websockets.connect(ws_url): on success both loops are started by gather;
\* a failure is caught by the handler's except Exception
WsConnect ==
    /\ pc = "connect"
    /\ \E ok \in BOOLEAN :
         IF ok
         THEN /\ ws' = [ws EXCEPT !.up = "open", !.url = ws_url,
                                  !.f2b = "recv", !.f2c = "recv"]
              /\ pc' = "bridging"
         ELSE /\ ws' = ws
              /\ pc' = "finally"
    /\ UNCHANGED <<req, backend_name, http, supVars>>

\* data = await websocket.receive_text()
F2bRecv ==
    /\ pc = "bridging"
    /\ ws.f2b = "recv"
    /\ IF ws.cliInbox # <<>>
       THEN LET m == Head(ws.cliInbox) IN
            ws' = IF m = "BIN"
                  THEN [ws EXCEPT !.cliInbox = Tail(@),
                                  !.f2bRead = Append(@, m),
                                  !.f2b = "done", !.f2bEnd = "error"]
                  ELSE [ws EXCEPT !.cliInbox = Tail(@),
                                  !.f2bRead = Append(@, m),
                                  !.f2bData = m, !.f2b = "send"]
       ELSE /\ ws.cli = "disconnected"
            /\ ws' = [ws EXCEPT !.f2b = "done", !.f2bEnd = "disconnect"]
    /\ UNCHANGED <<pc, req, backend_name, http, supVars>>

\* variant of F2bSend: the message is written ahead of the ones written before
F2bSend_Prepend ==
    /\ pc = "bridging"
    /\ ws.f2b = "send"
    /\ ws' = IF ws.up = "open"
             THEN [ws EXCEPT !.toUp = <<ws.f2bData>> \o @,
                             !.f2bData = "", !.f2b = "recv"]
             ELSE [ws EXCEPT !.f2bData = "", !.f2b = "done", !.f2bEnd = "error"]
    /\ UNCHANGED <<pc, req, backend_name, http, supVars>>

\* await backend_ws.send(data)
F2bSend ==
    /\ pc = "bridging"
    /\ ws.f2b = "send"
    /\ ws' = IF ws.up = "open"
             THEN [ws EXCEPT !.toUp = Append(@, ws.f2bData),
                             !.f2bData = "", !.f2b = "recv"]
             ELSE [ws EXCEPT !.f2bData = "", !.f2b = "done", !.f2bEnd = "error"]
    /\ UNCHANGED <<pc, req, backend_name, http, supVars>>

\* data = await backend_ws.recv(): queued messages first, then ConnectionClosed
F2cRecv ==
    /\ pc = "bridging"
    /\ ws.f2c = "recv"
    /\ IF ws.upOutbox # <<>>
       THEN ws' = [ws EXCEPT !.upOutbox = Tail(@),
                             !.f2cRead = Append(@, Head(ws.upOutbox)),
                             !.f2cData = Head(ws.upOutbox), !.f2c = "send"]
       ELSE /\ ws.up = "peer_closed"
            /\ ws' = [ws EXCEPT !.f2c = "done", !.f2cEnd = "closed"]
    /\ UNCHANGED <<pc, req, backend_name, http, supVars>>

\* await websocket.send_text(data): towards a client that went away the
\* server either raises or the frame is written to a dead socket
F2cSend ==
    /\ pc = "bridging"
    /\ ws.f2c = "send"
    /\ \E raises \in BOOLEAN :
         /\ raises => ws.cli = "disconnected"
         /\ ws' = IF raises
                  THEN [ws EXCEPT !.f2cData = "", !.f2c = "done",
                                  !.f2cEnd = "error"]
                  ELSE [ws EXCEPT !.toCli = Append(@, ws.f2cData),
                                  !.f2cData = "", !.f2c = "recv"]
    /\ UNCHANGED <<pc, req, backend_name, http, supVars>>

\* variant of WsGather: the wait ends with the first loop that ends
WsGather_FirstCompleted ==
    /\ pc = "bridging"
    /\ ws.f2b = "done" \/ ws.f2c = "done"
    /\ pc' = "exitctx"
    /\ UNCHANGED <<req, backend_name, ws, http, supVars>>

\* await asyncio.gather(...): returns when both loops have ended
WsGather ==
    /\ pc = "bridging"
    /\ ws.f2b = "done"
    /\ ws.f2c = "done"
    /\ pc' = "exitctx"
    /\ UNCHANGED <<req, backend_name, ws, http, supVars>>

\* variant of WsExitCtx: backend_ws opened without the context manager, so
\* nothing closes it
WsExitCtx_NoClose ==
    /\ pc = "exitctx"
    /\ pc' = "finally"
    /\ UNCHANGED <<req, backend_name, ws, http, supVars>>

\* leaving `async with websockets.connect(...)`: backend_ws is closed
WsExitCtx ==
    /\ pc = "exitctx"
    /\ ws' = [ws EXCEPT !.up = "closed", !.upCloseCalls = @ + 1]
    /\ pc' = "finally"
    /\ UNCHANGED <<req, backend_name, http, supVars>>

\* finally: await websocket.close(); once the client has disconnected the
\* server may refuse the close message with a RuntimeError, which nothing
\* catches
WsFinally ==
    /\ pc = "finally"
    /\ \E raises \in BOOLEAN :
         /\ raises => ws.cli = "disconnected"
         /\ pc' = IF raises THEN "raised" ELSE "returned"
         /\ ws' = [ws EXCEPT !.cliCloseCalls = @ + 1,
                             !.cli = IF ws.cli = "connected" THEN "closed" ELSE @]
    /\ UNCHANGED <<req, backend_name, http, supVars>>

\* the steps the session handler takes by itself
WsStep ==
    \/ WsAccept \/ WsConnect
    \/ F2bRecv \/ F2bSend \/ F2cRecv \/ F2cSend
    \/ WsGather \/ WsExitCtx \/ WsFinally

\* ---- the peers of the session
WsLive == pc \in {"connect", "bridging", "exitctx", "finally"}

ClientSend ==
    /\ pc \in {"connect", "bridging"}
    /\ ws.cli = "connected"
    /\ Len(ws.cliSent) < MaxMsgs
    /\ \E m \in ClientFrames :
         ws' = [ws EXCEPT !.cliInbox = Append(@, m), !.cliSent = Append(@, m)]
    /\ UNCHANGED <<pc, req, backend_name, http, supVars>>

ClientDisconnect ==
    /\ WsLive
    /\ ws.cli = "connected"
    /\ ws' = [ws EXCEPT !.cli = "disconnected"]
    /\ UNCHANGED <<pc, req, backend_name, http, supVars>>

UpstreamSend ==
    /\ pc = "bridging"
    /\ ws.up = "open"
    /\ Len(ws.upSent) < MaxMsgs
    /\ \E m \in UpstreamMsgs :
         ws' = [ws EXCEPT !.upOutbox = Append(@, m), !.upSent = Append(@, m)]
    /\ UNCHANGED <<pc, req, backend_name, http, supVars>>

UpstreamClose ==
    /\ pc = "bridging"
    /\ ws.up = "open"
    /\ ws' = [ws EXCEPT !.up = "peer_closed"]
    /\ UNCHANGED <<pc, req, backend_name, http, supVars>>

(***************************************************************************)
(* The HTTP forward.                                                       *)
(***************************************************************************)
\* content-type values of an upstream response; <<>> is the absent header
EVENT_STREAM == <<"text/event-stream">>

ContentTypes ==
    { <<>>,
      <<"text/event-stream">>,
      <<"text/event-stream", "; charset=utf-8">>,
      <<"text/html">> }

UpstreamStatuses == {200, 302}

BodyChunks == {"c1", "c2"}

NoUrl == [base |-> "", path |-> <<>>, query |-> ""]

NoSent == [method |-> "", url |-> NoUrl, headers |-> <<>>, content |-> ""]

HttpInit ==
    [ attempts   |-> 0,       \* calls of client.request
      upHead     |-> FALSE,   \* the upstream has sent status and headers
      upStatus   |-> 0,       \* status the upstream sent
      upType     |-> <<>>,    \* content-type the upstream sent
      upChunks   |-> <<>>,    \* body chunks the upstream has sent so far
      upFinished |-> FALSE,   \* the upstream has completed the body
      upFail     |-> "none",  \* "none", "unreachable", "timeout"
      status     |-> 0,       \* status of the response given to the client
      body       |-> <<>>,    \* body of a synthesized response
      delivered  |-> <<>>,    \* upstream body chunks delivered to the client
      target_url |-> "",      \* local target_url
      url        |-> NoUrl,   \* local url
      headers    |-> <<>>,    \* local headers
      content    |-> "",      \* local body
      sent       |-> NoSent ] \* the request client.request was given

IsEventStream(ct) == StartsWith(ct, EVENT_STREAM)

\* f"Backend server ({backend_name}) unavailable"
UnavailableBody(name) == <<"Backend server (", name, ") unavailable">>

\* response = await client.request(...): the call is issued
HttpCall ==
    /\ pc = "http_call"
    /\ http' = [http EXCEPT !.attempts = @ + 1,
                            !.sent = [method  |-> req.method,
                                      url     |-> http.url,
                                      headers |-> http.headers,
                                      content |-> http.content]]
    /\ pc' = "http_wait"
    /\ UNCHANGED <<req, backend_name, ws, supVars>>

\* client.request returns only when the whole body has been read
\* (httpx reads the response unless it is asked to stream); the handler
\* then answers with a StreamingResponse over the buffered body or with a
\* Response holding it
HttpReturn ==
    /\ pc = "http_wait"
    /\ http.upFail = "none"
    /\ http.upFinished
    /\ IF IsEventStream(http.upType)
       THEN /\ http' = [http EXCEPT !.status = http.upStatus]
            /\ pc' = "streaming"
       ELSE /\ http' = [http EXCEPT !.status = http.upStatus,
                                    !.delivered = http.upChunks]
            /\ pc' = "returned"
    /\ UNCHANGED <<req, backend_name, ws, supVars>>

\* stream_response(): response.aiter_bytes() yields the buffered body
HttpStream ==
    /\ pc = "streaming"
    /\ http' = [http EXCEPT !.delivered = http.upChunks]
    /\ pc' = "returned"
    /\ UNCHANGED <<req, backend_name, ws, supVars>>

\* variant of HttpFail: only httpx.ConnectError is caught, a timeout leaves
\* the handler as an exception
HttpFail_ConnectErrorOnly ==
    /\ pc = "http_wait"
    /\ http.upFail # "none"
    /\ IF http.upFail = "unreachable"
       THEN /\ http' = [http EXCEPT !.status = 503,
                                    !.body = UnavailableBody(backend_name)]
            /\ pc' = "returned"
       ELSE /\ http' = http
            /\ pc' = "raised"
    /\ UNCHANGED <<req, backend_name, ws, supVars>>

\* except httpx.RequestError: the synthesized 503
HttpFail ==
    /\ pc = "http_wait"
    /\ http.upFail # "none"
    /\ http' = [http EXCEPT !.status = 503,
                            !.body = UnavailableBody(backend_name)]
    /\ pc' = "returned"
    /\ UNCHANGED <<req, backend_name, ws, supVars>>

\* the steps the forwarder takes by itself
HttpStep == HttpCall \/ HttpReturn \/ HttpStream \/ HttpFail

\* ---- the upstream of the forward
\* connection refused or no route: httpx.ConnectError
UpstreamUnreachable ==
    /\ pc = "http_wait"
    /\ http.upFail = "none"
    /\ ~http.upHead
    /\ http' = [http EXCEPT !.upFail = "unreachable"]
    /\ UNCHANGED <<pc, req, backend_name, ws, supVars>>

\* the upstream stays silent for the client's timeout (timeout=360.0):
\* httpx.ConnectTimeout before the response head, httpx.ReadTimeout after
UpstreamTimeout ==
    /\ pc = "http_wait"
    /\ http.upFail = "none"
    /\ ~http.upFinished
    /\ http' = [http EXCEPT !.upFail = "timeout"]
    /\ UNCHANGED <<pc, req, backend_name, ws, supVars>>

UpstreamHead ==
    /\ pc = "http_wait"
    /\ http.upFail = "none"
    /\ ~http.upHead
    /\ \E ct \in ContentTypes, st \in UpstreamStatuses :
         http' = [http EXCEPT !.upHead = TRUE, !.upType = ct, !.upStatus = st]
    /\ UNCHANGED <<pc, req, backend_name, ws, supVars>>

UpstreamChunk ==
    /\ pc = "http_wait"
    /\ http.upFail = "none"
    /\ http.upHead
    /\ ~http.upFinished
    /\ Len(http.upChunks) < MaxChunks
    /\ \E c \in BodyChunks :
         http' = [http EXCEPT !.upChunks = Append(@, c)]
    /\ UNCHANGED <<pc, req, backend_name, ws, supVars>>

UpstreamFinish ==
    /\ pc = "http_wait"
    /\ http.upFail = "none"
    /\ http.upHead
    /\ ~http.upFinished
    /\ http' = [http EXCEPT !.upFinished = TRUE]
    /\ UNCHANGED <<pc, req, backend_name, ws, supVars>>

(***************************************************************************)
(* proxy_request: arrival and the prologue shared by both branches.        *)
(***************************************************************************)
Methods == {"GET", "POST"}

Queries == {"", "q=1"}

Bodies == {"", "payload"}

\* header lines of a request besides the upgrade header, as the server hands
\* them over: lower-case names, in the order received, repeats included
HeaderLists ==
    { << [name |-> "host", value |-> "gw"] >>,
      << [name |-> "host", value |-> "gw"], [name |-> "x-a", value |-> "1"] >>,
      << [name |-> "host", value |-> "gw"], [name |-> "accept", value |-> "a"],
         [name |-> "accept", value |-> "b"] >> }

\* request.headers: the header lines with the upgrade header, if sent
RequestHeaders(r) ==
    r.headers \o (IF r.upgrade = <<>> THEN <<>>
                  ELSE << [name |-> "upgrade", value |-> r.upgrade] >>)

\* dict(request.headers): one entry per name, in the order of first
\* occurrence, holding the value of the first line of that name
RECURSIVE DictOf(_, _)
DictOf(hs, seen) ==
    IF hs = <<>> THEN <<>>
    ELSE IF Head(hs).name \in seen THEN DictOf(Tail(hs), seen)
    ELSE <<Head(hs)>> \o DictOf(Tail(hs), seen \cup {Head(hs).name})

\* headers.pop("host", None)
PopHost(d) == SelectSeq(d, LAMBDA h : h.name # "host")

\* url = f"{target_url}/{path}", then "?" and the query if there is one
BuildUrl(base, p, q) == [base |-> base, path |-> p, query |-> q]

\* the routes of the application in the order they are registered: the
\* catch-all of proxy_request first, then /health
ALL_METHODS == {"GET", "POST", "PUT", "DELETE", "PATCH", "OPTIONS", "HEAD"}

HEALTH_PATH == <<"h","e","a","l","t","h">>

Routes ==
    << [pattern |-> "catch_all", methods |-> ALL_METHODS,
        endpoint |-> "proxy_request"],
       [pattern |-> "health", methods |-> {"GET"},
        endpoint |-> "health_check"] >>

\* "/{path:path}" matches every path, "/health" only its own
PathMatches(route, p) ==
    \/ route.pattern = "catch_all"
    \/ route.pattern = "health" /\ p = HEALTH_PATH

\* the first route, in registration order, that matches path and method
Dispatch(m, p) ==
    LET full == {i \in 1..Len(Routes) :
                    PathMatches(Routes[i], p) /\ m \in Routes[i].methods}
    IN  IF full = {} THEN "no_route"
        ELSE Routes[CHOOSE i \in full : \A j \in full : i <= j].endpoint

\* a request arrives and is routed; an upgrade request is a plain GET
Arrive ==
    /\ pc = "idle"
    /\ \E p \in Paths, u \in Upgrades, m \in Methods, q \in Queries,
          b \in Bodies, h \in HeaderLists :
         /\ IsUpgrade(u) =>
              /\ m = "GET"
              /\ q = ""
              /\ b = ""
              /\ Len(h) = 1
         /\ req' = [path |-> p, upgrade |-> u, method |-> m, query |-> q,
                    body |-> b, headers |-> h, handler |-> Dispatch(m, p)]
         /\ pc' = IF Dispatch(m, p) = "proxy_request" THEN "entry"
                  ELSE Dispatch(m, p)
    /\ UNCHANGED <<backend_name, ws, http, supVars>>

\* target selection, url, body and headers, then the upgrade test that
\* picks the branch
ProxyEntry ==
    /\ pc = "entry"
    /\ backend_name' = BackendName(req.path)
    /\ http' = [http EXCEPT
                  !.target_url = TargetUrl(req.path),
                  !.url = BuildUrl(TargetUrl(req.path), req.path, req.query),
                  !.content = req.body,
                  !.headers = PopHost(DictOf(RequestHeaders(req), {}))]
    /\ pc' = IF IsUpgrade(req.upgrade) THEN "accept" ELSE "http_call"
    /\ UNCHANGED <<req, ws, supVars>>

(***************************************************************************)
(* The supervisor: lifespan, start_backend_servers, stop_backend_servers.  *)
(***************************************************************************)
\* timeout=5.0 of asyncio.wait_for, in seconds
GracePeriod == 5

\* api_server_process, dashboard_server_process, in the order they are
\* started and stopped
Children == <<"api", "dashboard">>
ChildSet == {"api", "dashboard"}

HistInit ==
    [ termReq       |-> FALSE,  \* terminate() was called
      termDelivered |-> FALSE,  \* SIGTERM reached the live process
      killReq       |-> FALSE,  \* kill() was called
      killDelivered |-> FALSE,  \* SIGKILL reached the live process
      waited        |-> 0,      \* seconds waited when wait_for ended
      timedOut      |-> FALSE,  \* wait_for raised TimeoutError
      aliveAtExpiry |-> FALSE,  \* the process was alive when it did
      visibleExit   |-> FALSE,  \* returncode was set when stop looked at it
      hiddenExit    |-> FALSE,  \* dead but unobserved when terminate() ran
      selfExit      |-> FALSE,  \* the process exited before any SIGKILL
      outcome       |-> "" ]    \* "skipped", "stopped", "force_killed",
                                \* "already_terminated"

\* output streams of a child, both opened as pipes
Streams == {"stdout", "stderr"}

IoInit ==
    [ pipe  |-> [c \in ChildSet |-> [s \in Streams |-> 0]],
                                \* lines written by the child and not yet read
      read  |-> [c \in ChildSet |-> [s \in Streams |-> 0]],
                                \* lines read from the stream so far
      task  |-> [c \in ChildSet |-> "off"] ]
                                \* log_subprocess_output task: "off",
                                \* "running", "ended" (end of stream),
                                \* "failed" (read error)

\* a signal while only main's signal_handler is registered: sys.exit(0)
SignalHandler ==
    /\ gw = "init"
    /\ gw' = "exited"
    /\ UNCHANGED <<reqVars, io, health, sigterm, osState, returncode, stopPc, stopIdx,
                   elapsed, hist>>

\* uvicorn.run(app, ...): the server installs its own signal handling and
\* enters the lifespan start-up
RunServer ==
    /\ gw = "init"
    /\ gw' = "spawn_api"
    /\ UNCHANGED <<reqVars, io, health, sigterm, osState, returncode, stopPc, stopIdx,
                   elapsed, hist>>

\* variant of SpawnApi: a failed spawn is passed over
SpawnApi_Lenient ==
    /\ gw = "spawn_api"
    /\ \E ok \in BOOLEAN :
         IF ok
         THEN /\ osState' = [osState EXCEPT !["api"] = "running"]
              /\ gw' = "spawn_dashboard"
         ELSE /\ osState' = osState
              /\ gw' = "spawn_dashboard"
    /\ UNCHANGED <<reqVars, io, health, sigterm, returncode, stopPc, stopIdx, elapsed, hist>>

\* await asyncio.create_subprocess_exec(... "api_server.py" ...)
SpawnApi ==
    /\ gw = "spawn_api"
    /\ \E ok \in BOOLEAN :
         IF ok
         THEN /\ osState' = [osState EXCEPT !["api"] = "running"]
              /\ gw' = "spawn_dashboard"
         ELSE /\ osState' = osState
              /\ gw' = "failed"
    /\ UNCHANGED <<reqVars, io, health, sigterm, returncode, stopPc, stopIdx, elapsed, hist>>

\* await asyncio.create_subprocess_exec(... "dashboard_server.py" ...)
SpawnDashboard ==
    /\ gw = "spawn_dashboard"
    /\ \E ok \in BOOLEAN :
         IF ok
         THEN /\ osState' = [osState EXCEPT !["dashboard"] = "running"]
              /\ gw' = "sleep"
         ELSE /\ osState' = osState
              /\ gw' = "failed"
    /\ UNCHANGED <<reqVars, io, health, sigterm, returncode, stopPc, stopIdx, elapsed, hist>>

\* await asyncio.sleep(3), one log_subprocess_output task per child, "ready
\* to accept connections"
StartupDone ==
    /\ gw = "sleep"
    /\ gw' = "serving"
    /\ io' = [io EXCEPT !.task = [c \in ChildSet |-> "running"]]
    /\ UNCHANGED <<reqVars, health, sigterm, osState, returncode, stopPc, stopIdx,
                   elapsed, hist>>

\* SIGINT or SIGTERM while the server runs: the server notes it and exits
\* its main loop once start-up is over
Signal ==
    /\ gw \in {"spawn_api", "spawn_dashboard", "sleep", "serving"}
    /\ ~sigterm
    /\ sigterm' = TRUE
    /\ UNCHANGED <<reqVars, io, health, gw, osState, returncode, stopPc, stopIdx, elapsed,
                   hist>>

\* lifespan after the yield: await stop_backend_servers()
BeginShutdown ==
    /\ gw = "serving"
    /\ sigterm
    /\ gw' = "stopping"
    /\ stopPc' = "check"
    /\ stopIdx' = 1
    /\ UNCHANGED <<reqVars, io, health, sigterm, osState, returncode, elapsed, hist>>

\* ---- the children and the event loop's view of them
\* a child exits: by itself, or because it handled SIGTERM
ProcExit(c) ==
    /\ gw \notin {"stopped", "failed", "exited"}
    /\ osState[c] = "running"
    /\ osState' = [osState EXCEPT ![c] = "dead"]
    /\ hist' = [hist EXCEPT ![c].selfExit = TRUE]
    /\ UNCHANGED <<reqVars, io, health, gw, sigterm, returncode, stopPc, stopIdx, elapsed>>

\* the event loop learns of the exit: returncode is set.  The loop runs only
\* while the coroutine is suspended, so not between the returncode test and
\* terminate(), nor between TimeoutError and kill()
Reap(c) ==
    /\ gw \notin {"stopped", "failed", "exited"}
    /\ stopPc \notin {"terminate", "kill"}
    /\ osState[c] = "dead"
    /\ returncode[c] = "None"
    /\ returncode' = [returncode EXCEPT ![c] = "set"]
    /\ UNCHANGED <<reqVars, io, health, gw, sigterm, osState, stopPc, stopIdx, elapsed, hist>>

ChildExit == \E c \in ChildSet : ProcExit(c)

ChildReaped == \E c \in ChildSet : Reap(c)

\* ---- stop_backend_servers, one child after the other
Cur == Children[stopIdx]

\* the stop of the current child is over: on to the next child, or
\* "shutdown complete"
Advance(h) ==
    /\ hist' = h
    /\ elapsed' = 0
    /\ IF stopIdx < Len(Children)
       THEN /\ stopIdx' = stopIdx + 1
            /\ stopPc' = "check"
            /\ gw' = gw
       ELSE /\ stopIdx' = stopIdx
            /\ stopPc' = "done"
            /\ gw' = "stopped"

\* variant of StopCheck: terminate() whatever returncode says
StopCheck_NoTest ==
    /\ gw = "stopping"
    /\ stopPc = "check"
    /\ stopPc' = "terminate"
    /\ UNCHANGED <<gw, stopIdx, elapsed, hist>>
    /\ UNCHANGED <<reqVars, io, health, sigterm, osState, returncode>>

\* if process: ... if process.returncode is None:
StopCheck ==
    /\ gw = "stopping"
    /\ stopPc = "check"
    /\ IF returncode[Cur] = "None"
       THEN /\ stopPc' = "terminate"
            /\ UNCHANGED <<gw, stopIdx, elapsed, hist>>
       ELSE Advance([hist EXCEPT ![Cur].visibleExit = TRUE,
                                 ![Cur].outcome = "skipped"])
    /\ UNCHANGED <<reqVars, io, health, sigterm, osState, returncode>>

\* variant of StopTerminate: ProcessLookupError is not caught
StopTerminate_Uncaught ==
    /\ gw = "stopping"
    /\ stopPc = "terminate"
    /\ IF osState[Cur] = "running"
       THEN /\ hist' = [hist EXCEPT ![Cur].termReq = TRUE,
                                    ![Cur].termDelivered = TRUE]
            /\ stopPc' = "wait"
            /\ elapsed' = 0
            /\ UNCHANGED <<gw, stopIdx>>
       ELSE /\ hist' = [hist EXCEPT ![Cur].termReq = TRUE,
                                    ![Cur].hiddenExit = TRUE]
            /\ stopPc' = "raised"
            /\ UNCHANGED <<gw, stopIdx, elapsed>>
    /\ UNCHANGED <<reqVars, io, health, sigterm, osState, returncode>>

\* process.terminate(); on a process that is already gone it raises
\* ProcessLookupError (caught: "already terminated") or does nothing
StopTerminate ==
    /\ gw = "stopping"
    /\ stopPc = "terminate"
    /\ IF osState[Cur] = "running"
       THEN /\ hist' = [hist EXCEPT ![Cur].termReq = TRUE,
                                    ![Cur].termDelivered = TRUE]
            /\ stopPc' = "wait"
            /\ elapsed' = 0
            /\ UNCHANGED <<gw, stopIdx>>
       ELSE \E raises \in BOOLEAN :
              IF raises
              THEN Advance([hist EXCEPT ![Cur].termReq = TRUE,
                                        ![Cur].hiddenExit = TRUE,
                                        ![Cur].outcome = "already_terminated"])
              ELSE /\ hist' = [hist EXCEPT ![Cur].termReq = TRUE,
                                           ![Cur].hiddenExit = TRUE]
                   /\ stopPc' = "wait"
                   /\ elapsed' = 0
                   /\ UNCHANGED <<gw, stopIdx>>
    /\ UNCHANGED <<reqVars, io, health, sigterm, osState, returncode>>

\* one second passes inside wait_for(process.wait(), timeout=5.0)
Tick ==
    /\ gw = "stopping"
    /\ stopPc = "wait"
    /\ returncode[Cur] = "None"
    /\ elapsed < GracePeriod
    /\ elapsed' = elapsed + 1
    /\ UNCHANGED <<reqVars, io, health, gw, sigterm, osState, returncode, stopPc, stopIdx,
                   hist>>

\* process.wait() completed within the timeout: "stopped"
WaitReturn ==
    /\ gw = "stopping"
    /\ stopPc = "wait"
    /\ returncode[Cur] = "set"
    /\ Advance([hist EXCEPT ![Cur].waited = elapsed,
                            ![Cur].outcome = "stopped"])
    /\ UNCHANGED <<reqVars, io, health, sigterm, osState, returncode>>

\* variant of WaitTimeout: the wait gives up before the grace period is over
WaitTimeout_Early ==
    /\ gw = "stopping"
    /\ stopPc = "wait"
    /\ returncode[Cur] = "None"
    /\ hist' = [hist EXCEPT ![Cur].waited = elapsed,
                            ![Cur].timedOut = TRUE,
                            ![Cur].aliveAtExpiry = (osState[Cur] = "running")]
    /\ stopPc' = "kill"
    /\ UNCHANGED <<reqVars, io, health, gw, sigterm, osState, returncode, stopIdx, elapsed>>

\* the timeout elapsed first: asyncio.TimeoutError
WaitTimeout ==
    /\ gw = "stopping"
    /\ stopPc = "wait"
    /\ returncode[Cur] = "None"
    /\ elapsed = GracePeriod
    /\ hist' = [hist EXCEPT ![Cur].waited = elapsed,
                            ![Cur].timedOut = TRUE,
                            ![Cur].aliveAtExpiry = (osState[Cur] = "running")]
    /\ stopPc' = "kill"
    /\ UNCHANGED <<reqVars, io, health, gw, sigterm, osState, returncode, stopIdx, elapsed>>

\* variant of StopKill: the timeout is logged and no kill() follows
StopKill_LogOnly ==
    /\ gw = "stopping"
    /\ stopPc = "kill"
    /\ osState' = osState
    /\ Advance([hist EXCEPT ![Cur].outcome = "force_killed"])
    /\ UNCHANGED <<reqVars, io, health, sigterm, returncode>>

\* process.kill() in the TimeoutError handler; on a process that is already
\* gone it raises ProcessLookupError (caught) or does nothing
StopKill ==
    /\ gw = "stopping"
    /\ stopPc = "kill"
    /\ IF osState[Cur] = "running"
       THEN /\ osState' = [osState EXCEPT ![Cur] = "dead"]
            /\ Advance([hist EXCEPT ![Cur].killReq = TRUE,
                                    ![Cur].killDelivered = TRUE,
                                    ![Cur].outcome = "force_killed"])
       ELSE /\ osState' = osState
            /\ \E raises \in BOOLEAN :
                 Advance([hist EXCEPT ![Cur].killReq = TRUE,
                                      ![Cur].outcome =
                                          IF raises THEN "already_terminated"
                                                    ELSE "force_killed"])
    /\ UNCHANGED <<reqVars, io, health, sigterm, returncode>>

(***************************************************************************)
(* The children's output pipes and log_subprocess_output.                  *)
(***************************************************************************)
\* a running child writes a line to one of its pipes
ChildWrite ==
    /\ \E c \in ChildSet, s \in Streams :
         /\ osState[c] = "running"
         /\ io.pipe[c][s] + io.read[c][s] < MaxLines
         /\ io' = [io EXCEPT !.pipe[c][s] = @ + 1]
    /\ UNCHANGED <<reqVars, health, gw, sigterm, osState, returncode, stopPc, stopIdx,
                   elapsed, hist>>

\* await process.<s>.readline() returns a line, which is logged
ReadLine(c, s) ==
    /\ io.task[c] = "running"
    /\ io.pipe[c][s] > 0
    /\ io' = [io EXCEPT !.pipe[c][s] = @ - 1, !.read[c][s] = @ + 1]
    /\ UNCHANGED <<reqVars, health, gw, sigterm, osState, returncode, stopPc, stopIdx,
                   elapsed, hist>>

\* line = await process.stdout.readline(); if line: logger.info(...)
RelayRead == \E c \in ChildSet : ReadLine(c, "stdout")

\* readline() returns b"" at the end of the stream: break
RelayEof ==
    /\ \E c \in ChildSet :
         /\ io.task[c] = "running"
         /\ io.pipe[c]["stdout"] = 0
         /\ osState[c] = "dead"
         /\ io' = [io EXCEPT !.task[c] = "ended"]
    /\ UNCHANGED <<reqVars, health, gw, sigterm, osState, returncode, stopPc, stopIdx,
                   elapsed, hist>>

\* readline() or decode() raises: the error is logged, break
RelayReadError ==
    /\ \E c \in ChildSet :
         /\ io.task[c] = "running"
         /\ io' = [io EXCEPT !.task[c] = "failed"]
    /\ UNCHANGED <<reqVars, health, gw, sigterm, osState, returncode, stopPc, stopIdx,
                   elapsed, hist>>

\* a step of a log task
LogRelay == RelayRead \/ RelayEof \/ RelayReadError

(***************************************************************************)
(* health_check.                                                           *)
(***************************************************************************)
\* int(os.getenv("PORT", 10000))
MAIN_PORT == 10000

Upstreams == {"api", "dashboard"}

\* what a probed upstream does: it answers with a status code, it cannot be
\* reached (httpx.ConnectError), or it stays silent for timeout=5.0
\* (httpx.TimeoutException)
ProbeOutcomes ==
    [kind : {"response"}, code : {200, 204, 404, 500, 503}]
    \cup [kind : {"unreachable", "timeout"}, code : {0}]

HealthInit ==
    [ pc     |-> "idle",   \* idle, probe_api, probe_dashboard, return, done
      up     |-> [u \in Upstreams |-> [kind |-> "", code |-> 0]],
                           \* what each upstream does when probed
      probes |-> [u \in Upstreams |-> 0],   \* client.get calls per upstream
      code   |-> [u \in Upstreams |-> 0],   \* status_code received
      status |-> 0,        \* HTTP status of the answer
      body   |-> [kind |-> "", status |-> "", api_server |-> "",
                  dashboard_server |-> "", port |-> 0] ]

\* "online" if status_code == 200 else "degraded"
ServerField(code) == IF code = 200 THEN "online" ELSE "degraded"

\* except Exception: Response("Health check failed: ...", status_code=503)
HealthFailed(h, u) ==
    [h EXCEPT !.probes[u] = @ + 1,
              !.status = 503,
              !.body = [kind |-> "text", status |-> "Health check failed",
                        api_server |-> "", dashboard_server |-> "", port |-> 0],
              !.pc = "done"]

\* a request reaches health_check; the upstreams are in some condition
HealthCall ==
    /\ health.pc = "idle"
    /\ \E a \in ProbeOutcomes, d \in ProbeOutcomes :
         health' = [health EXCEPT !.up = [api |-> a, dashboard |-> d],
                                  !.pc = "probe_api"]
    /\ UNCHANGED <<reqVars, gw, sigterm, osState, returncode, stopPc, stopIdx,
                   elapsed, hist, io>>

\* api_health = await client.get(f"{API_SERVER_URL}/v1/models", timeout=5.0)
ProbeApi ==
    /\ health.pc = "probe_api"
    /\ health' = IF health.up["api"].kind = "response"
                 THEN [health EXCEPT !.probes["api"] = @ + 1,
                                     !.code["api"] = health.up["api"].code,
                                     !.pc = "probe_dashboard"]
                 ELSE HealthFailed(health, "api")
    /\ UNCHANGED <<reqVars, gw, sigterm, osState, returncode, stopPc, stopIdx,
                   elapsed, hist, io>>

\* dashboard_health = await client.get(f"{DASHBOARD_SERVER_URL}/api/status",
\*                                     timeout=5.0)
ProbeDashboard ==
    /\ health.pc = "probe_dashboard"
    /\ health' = IF health.up["dashboard"].kind = "response"
                 THEN [health EXCEPT !.probes["dashboard"] = @ + 1,
                                     !.code["dashboard"] =
                                         health.up["dashboard"].code,
                                     !.pc = "return"]
                 ELSE HealthFailed(health, "dashboard")
    /\ UNCHANGED <<reqVars, gw, sigterm, osState, returncode, stopPc, stopIdx,
                   elapsed, hist, io>>

\* return {"status": "healthy", ...}: a dict is answered with HTTP 200
HealthReturn ==
    /\ health.pc = "return"
    /\ health' = [health EXCEPT
                    !.status = 200,
                    !.body = [kind |-> "json", status |-> "healthy",
                              api_server |-> ServerField(health.code["api"]),
                              dashboard_server |->
                                  ServerField(health.code["dashboard"]),
                              port |-> MAIN_PORT],
                    !.pc = "done"]
    /\ UNCHANGED <<reqVars, gw, sigterm, osState, returncode, stopPc, stopIdx,
                   elapsed, hist, io>>

(***************************************************************************)
(* Specifications.                                                         *)
(***************************************************************************)
Init ==
    /\ pc = "idle"
    /\ req = [path |-> <<>>, upgrade |-> <<>>, method |-> "", query |-> "",
              body |-> "", headers |-> <<>>, handler |-> ""]
    /\ backend_name = ""
    /\ ws = WsInit
    /\ http = HttpInit
    /\ gw = "init"
    /\ sigterm = FALSE
    /\ osState = [c \in ChildSet |-> "none"]
    /\ returncode = [c \in ChildSet |-> "None"]
    /\ stopPc = "idle"
    /\ stopIdx = 1
    /\ elapsed = 0
    /\ hist = [c \in ChildSet |-> HistInit]
    /\ io = IoInit
    /\ health = HealthInit

\* one request through proxy_request
Next ==
    \/ Arrive \/ ProxyEntry
    \/ WsAccept \/ WsConnect
    \/ F2bRecv \/ F2bSend \/ F2cRecv \/ F2cSend
    \/ WsGather \/ WsExitCtx \/ WsFinally
    \/ ClientSend \/ ClientDisconnect \/ UpstreamSend \/ UpstreamClose
    \/ HttpCall \/ HttpReturn \/ HttpStream \/ HttpFail
    \/ UpstreamUnreachable \/ UpstreamTimeout
    \/ UpstreamHead \/ UpstreamChunk \/ UpstreamFinish

Spec == Init /\ [][Next]_vars

\* the gateway from process start to process end
SupNext ==
    \/ SignalHandler \/ RunServer
    \/ SpawnApi \/ SpawnDashboard \/ StartupDone
    \/ Signal \/ BeginShutdown
    \/ ChildExit \/ ChildReaped
    \/ StopCheck \/ StopTerminate \/ Tick \/ WaitReturn \/ WaitTimeout
    \/ StopKill

SupSpec == Init /\ [][SupNext]_vars

\* one call of health_check
\* start-up, the children and the log tasks
LogNext ==
    \/ RunServer
    \/ SpawnApi
    \/ SpawnDashboard
    \/ StartupDone
    \/ ChildExit
    \/ ChildWrite
    \/ LogRelay

LogSpec == Init /\ [][LogNext]_vars

HealthNext == HealthCall \/ ProbeApi \/ ProbeDashboard \/ HealthReturn

HealthSpec == Init /\ [][HealthNext]_vars

(***************************************************************************)
(* Properties of the bridge session and of the HTTP forward (Spec).        *)
(***************************************************************************)
IsPrefix(s, t) == Len(s) <= Len(t) /\ SubSeq(t, 1, Len(s)) = s

SessionOpen == pc \in {"bridging", "exitctx", "finally"}

\* C1: once the upstream has closed its connection, the session goes on to
\* close the client-facing connection and to end without any further frame
\* or action of the client: in every state of a running session whose
\* upstream has closed, the handler itself has a step to take.
C1_UpstreamCloseEndsSession ==
    (SessionOpen /\ ws.up = "peer_closed") => ENABLED WsStep

\* C2: once the client has disconnected, the session goes on to close the
\* upstream connection and to end without the upstream sending or closing
\* anything: in every state of a running session whose client is gone, the
\* handler itself has a step to take.
C2_ClientDisconnectEndsSession ==
    (SessionOpen /\ ws.cli = "disconnected") => ENABLED WsStep

\* C3: for a text/event-stream response the forwarder emits the chunks the
\* upstream has sent before the upstream finishes: while the upstream pauses
\* mid-stream with chunks not yet delivered, the forwarder has a step to take.
C3_StreamsBeforeUpstreamFinishes ==
    ( /\ pc \in {"http_wait", "streaming"}
      /\ IsEventStream(http.upType)
      /\ http.upFail = "none"
      /\ ~http.upFinished
      /\ Len(http.delivered) < Len(http.upChunks) )
    => ENABLED HttpStep

\* C4: when the upstream of a non-upgrade request is unreachable or times
\* out, the client gets status 503 with a body naming the backend the router
\* selected for the path, after exactly one upstream attempt, and no
\* exception leaves the handler.
C4_UpstreamFailureIs503 ==
    /\ http.attempts <= 1
    /\ http.upFail # "none" =>
         /\ pc \in {"http_wait", "returned"}
         /\ http.attempts = 1
    /\ (pc = "returned" /\ http.upFail # "none") =>
         /\ http.status = 503
         /\ http.body = <<"Backend server (", backend_name, ") unavailable">>
         /\ backend_name = (IF IsApiPath(req.path) THEN "API" ELSE "DASHBOARD")
         /\ http.delivered = <<>>

C4_Witness ==
    /\ pc = "returned"
    /\ http.upFail = "timeout"
    /\ http.upChunks # <<>>
    /\ http.status = 503
    /\ backend_name = "API"

\* C5: no failure inside a bridge session leaves the handler as an unhandled
\* exception.
C5_NoSessionFailureEscapes == pc # "raised"

\* C6: a session is torn down exactly once: neither connection is ever
\* closed twice, and when the handler of an accepted session is left,
\* websocket.close() has been performed once and so has the close of
\* backend_ws if it was opened (always, when the two loops ran).
C6_TornDownExactlyOnce ==
    /\ ws.cliCloseCalls <= 1
    /\ ws.upCloseCalls <= 1
    /\ (pc \in {"returned", "raised"} /\ ws.accepted) =>
         /\ ws.cliCloseCalls = 1
         /\ ws.upCloseCalls = (IF ws.url = "" THEN 0 ELSE 1)
         /\ ws.f2b # "off" => ws.upCloseCalls = 1

\* both directions failed and the client had already gone
C6_Witness ==
    /\ pc \in {"returned", "raised"}
    /\ ws.f2bEnd = "error"
    /\ ws.f2cEnd = "error"
    /\ ws.cli = "disconnected"
    /\ ws.cliCloseCalls = 1
    /\ ws.upCloseCalls = 1

\* C7: in each direction what has been written is a prefix of what has been
\* received, which is a prefix of what the peer sent: no reordering, no
\* duplication.
C7_RelayedInReceiptOrder ==
    /\ IsPrefix(ws.toUp, ws.f2bRead)
    /\ IsPrefix(ws.f2bRead, ws.cliSent)
    /\ IsPrefix(ws.toCli, ws.f2cRead)
    /\ IsPrefix(ws.f2cRead, ws.upSent)

C7_Witness ==
    /\ ws.toUp = <<"a", "b">>
    /\ ws.toCli = <<"y", "x">>

\* the paths of Paths that are "ws" or begin with it, or begin with "v1/"
\* or "internal/"
TargetAPaths ==
    { <<"w","s">>,
      <<"w","s","x">>,
      <<"v","1","/","m">>,
      <<"i","n","t","e","r","n","a","l","/","r">> }

Routed == pc \notin {"idle", "entry", "health_check", "no_route"}

\* C13: the target depends on the path alone: Target A (the API server) for
\* "ws", for paths beginning with "ws", "v1/" or "internal/", Target B (the
\* dashboard server) for every other path, "v1" and the empty path included;
\* one target per request.
C13_ClassifyByPrefix ==
    Routed =>
        IF req.path \in TargetAPaths
        THEN /\ backend_name = "API"
             /\ http.target_url = "http://127.0.0.1:5102"
             /\ http.url.base = "http://127.0.0.1:5102"
        ELSE /\ backend_name = "DASHBOARD"
             /\ http.target_url = "http://127.0.0.1:5105"
             /\ http.url.base = "http://127.0.0.1:5105"

C13_Witness ==
    /\ pc = "returned"
    /\ req.path = <<"v","1">>
    /\ backend_name = "DASHBOARD"
    /\ http.sent.url.base = "http://127.0.0.1:5105"

\* C14: the request given to the upstream has the client's method, path,
\* query string and body, and carries every header line of the client
\* unchanged except the host lines, which are removed.
C14_RequestForwardedUnchanged ==
    http.attempts > 0 =>
        /\ http.sent.method = req.method
        /\ http.sent.url.path = req.path
        /\ http.sent.url.query = req.query
        /\ http.sent.content = req.body
        /\ http.sent.headers =
               SelectSeq(RequestHeaders(req), LAMBDA h : h.name # "host")

\* C16: GET /health is answered by health_check and never by the catch-all
\* route of proxy_request.
C16_HealthServedByReporter ==
    (pc # "idle" /\ req.method = "GET" /\ req.path = HEALTH_PATH) =>
        req.handler = "health_check"

\* C17: when the handler of an accepted session is left, both loops have
\* ended and both connections are closed; if the upstream connection could
\* not be opened the client connection is closed all the same.
C17_ReleasedMeansAllClosed ==
    (pc \in {"returned", "raised"} /\ ws.accepted) =>
        /\ ws.f2b \in {"off", "done"}
        /\ ws.f2c \in {"off", "done"}
        /\ ws.cli \in {"closed", "disconnected"}
        /\ ws.up \in {"none", "closed"}
        /\ ws.up = "none" <=> ws.url = ""

C17_Witness ==
    /\ pc = "returned"
    /\ ws.f2bEnd = "error"
    /\ ws.f2cEnd = "closed"
    /\ ws.cli = "closed"
    /\ ws.up = "closed"

\* the request carries "upgrade: websocket", in any letter case
HasUpgradeSignal ==
    req.upgrade \in { <<"w","e","b","s","o","c","k","e","t">>,
                      <<"W","e","b","S","o","c","k","e","t">> }

\* C18: a request with the upgrade signal, whatever its path, is bridged
\* only to ws://127.0.0.1:5102/ws and is never forwarded over HTTP; a
\* request without the signal never opens a bridge session.
C18_BridgeIsNotPathRouted ==
    /\ ws.up # "none" => ws.url = "ws://127.0.0.1:5102/ws"
    /\ (Routed /\ HasUpgradeSignal) =>
         /\ pc \in {"accept", "connect", "bridging", "exitctx", "finally",
                    "returned", "raised"}
         /\ http.attempts = 0
    /\ (Routed /\ ~HasUpgradeSignal) =>
         /\ pc \in {"http_call", "http_wait", "streaming", "returned"}
         /\ ~ws.accepted
         /\ ws.up = "none"
         /\ ws.url = ""

\* a session on a path routed to the dashboard server
C18_Witness ==
    /\ req.path = <<"a","p","i","/","s">>
    /\ backend_name = "DASHBOARD"
    /\ ws.up = "open"
    /\ ws.url = "ws://127.0.0.1:5102/ws"
    /\ Len(ws.toUp) > 0

(***************************************************************************)
(* Properties of the supervisor (SupSpec).                                 *)
(***************************************************************************)
\* C8: when the shutdown sequence has completed no child is still running,
\* and the stop of each child has been carried out, whatever the outcome of
\* the stop before it.
C8_NoChildSurvivesShutdown ==
    gw = "stopped" =>
        \A c \in ChildSet :
            /\ osState[c] = "dead"
            /\ hist[c].outcome # ""

C8_Witness ==
    /\ gw = "stopped"
    /\ hist["api"].outcome = "force_killed"
    /\ hist["api"].killDelivered
    /\ hist["dashboard"].outcome = "stopped"
    /\ hist["dashboard"].termDelivered

\* C9: kill() is called exactly when wait_for ran into its timeout, that is
\* after terminate() and after the whole grace period with the exit still
\* unobserved; SIGKILL reaches only a process that was alive when the grace
\* period elapsed, and a process that never exits by itself is killed.
C9_KillOnlyAfterGracePeriod ==
    \A c \in ChildSet :
        /\ hist[c].killReq =>
             /\ hist[c].termReq
             /\ hist[c].timedOut
             /\ hist[c].waited = GracePeriod
        /\ (hist[c].timedOut /\ hist[c].outcome # "") => hist[c].killReq
        /\ hist[c].killDelivered => hist[c].aliveAtExpiry
        /\ (hist[c].outcome # "" /\ ~hist[c].selfExit) =>
             /\ hist[c].termDelivered
             /\ hist[c].killDelivered

C9_Witness ==
    /\ hist["api"].killDelivered
    /\ hist["api"].waited = GracePeriod
    /\ hist["dashboard"].outcome = "stopped"
    /\ hist["dashboard"].waited < GracePeriod
    /\ ~hist["dashboard"].killReq

\* C10: stopping a child that has already exited raises nothing and the
\* shutdown goes on, whether the exit was visible in returncode or the child
\* was gone, unobserved, when terminate() was called.
C10_ExitedChildIsSuccess ==
    /\ stopPc # "raised"
    /\ \A i \in 1..Len(Children) :
         LET c == Children[i] IN
         ((hist[c].visibleExit \/ hist[c].hiddenExit) /\ hist[c].outcome # "") =>
             /\ hist[c].outcome \in {"skipped", "stopped", "already_terminated",
                                     "force_killed"}
             /\ ~hist[c].killDelivered
             /\ gw \in {"stopping", "stopped"}
             /\ stopIdx > i \/ gw = "stopped"

C10_Witness ==
    /\ gw = "stopped"
    /\ hist["api"].visibleExit
    /\ hist["api"].outcome = "skipped"
    /\ hist["dashboard"].hiddenExit
    /\ hist["dashboard"].outcome = "already_terminated"

\* the gateway accepts connections from "ready to accept connections" on
Accepting == gw \in {"serving", "stopping", "stopped"}

\* C15: whenever the gateway accepts, or has accepted, connections both
\* children have been spawned; the gateway has failed only with a child
\* missing, and once failed it stays failed, so it never accepts.
C15_AcceptOnlyAfterAllSpawned ==
    /\ [](Accepting => \A c \in ChildSet : osState[c] # "none")
    /\ [](gw = "failed" => \E c \in ChildSet : osState[c] = "none")
    /\ [][gw = "failed" => gw' = "failed"]_vars
    /\ [][(osState["api"] = "none" /\ gw = "spawn_api" /\ gw' # gw
             /\ osState'["api"] = "none") => gw' = "failed"]_vars
    /\ [][(osState["dashboard"] = "none" /\ gw = "spawn_dashboard" /\ gw' # gw
             /\ osState'["dashboard"] = "none") => gw' = "failed"]_vars

C15_Witness ==
    /\ gw = "serving"
    /\ osState["api"] = "running"
    /\ osState["dashboard"] = "running"
    /\ ~sigterm

\* Running, Terminating, Stopped as 0, 1, 2: Stopped once returncode is
\* set, Terminating once terminate() was called, Running before
Lifecycle(c) ==
    IF returncode[c] = "set" THEN 2
    ELSE IF hist[c].termReq THEN 1
    ELSE 0

\* C20: no step takes a handle back to an earlier lifecycle state, and
\* terminate() and kill() are called only on a handle whose returncode is
\* still None.
C20_LifecycleIsMonotonic ==
    [][\A c \in ChildSet :
         /\ Lifecycle(c)' >= Lifecycle(c)
         /\ (hist'[c].termReq /\ ~hist[c].termReq) => returncode[c] = "None"
         /\ (hist'[c].killReq /\ ~hist[c].killReq) =>
              /\ returncode[c] = "None"
              /\ hist[c].termReq]_vars

C20_Witness ==
    /\ gw = "stopped"
    /\ hist["api"].termReq
    /\ hist["api"].outcome = "stopped"
    /\ returncode["api"] = "set"
    /\ hist["dashboard"].visibleExit
    /\ ~hist["dashboard"].termReq
    /\ ~hist["dashboard"].killReq

(***************************************************************************)
(* Properties of the log tasks (LogSpec).                                  *)
(***************************************************************************)
\* C19: while the log task of a child runs, a line waiting in either of the
\* child's output streams can be read by a step of a log task; and a read
\* error ends the task of that child only.
C19_BothStreamsConsumed ==
    /\ \A c \in ChildSet, s \in Streams :
         (io.task[c] = "running" /\ io.pipe[c][s] > 0) =>
             ENABLED (LogRelay /\ io'.read[c][s] = io.read[c][s] + 1)
    /\ \A c \in ChildSet :
         io.task[c] = "failed" => gw = "serving"


(***************************************************************************)
\* the upstream answered with a success status (2xx)
Healthy(u) ==
    /\ health.up[u].kind = "response"
    /\ health.up[u].code \in 200..299

\* the field the composite status is to carry; for a success status other
\* than 200 either word is accepted
ExpectedFields(u) ==
    IF ~Healthy(u) THEN {"degraded"}
    ELSE IF health.up[u].code = 200 THEN {"online"}
    ELSE {"online", "degraded"}

\* C11: each upstream is probed once and judged by itself: whatever the
\* other upstream does, the answer is the composite status, in which an
\* upstream is "online" when it is healthy and "degraded" on a non-success
\* status, network error or timeout.
C11_ProbesAreIndependent ==
    health.pc = "done" =>
        /\ health.body.kind = "json"
        /\ \A u \in Upstreams : health.probes[u] = 1
        /\ health.body.api_server \in ExpectedFields("api")
        /\ health.body.dashboard_server \in ExpectedFields("dashboard")

\* C12: the health endpoint answers 200 exactly when every upstream probe
\* returned a success status, and 503 otherwise.
C12_StatusFollowsProbe ==
    health.pc = "done" =>
        /\ health.status \in {200, 503}
        /\ health.status = 200 <=> \A u \in Upstreams : Healthy(u)

=============================================================================
